---- MODULE Spec2Model ----
(***************************************************************************)
(* linux-app-deployer: the step operations (checkout, build, verify,       *)
(* deploy, restart, stop, status, logs) in their two implementations       *)
(* (src/tools/tools_api.py behind the HTTP routes of src/api.py, and the   *)
(* MCP tools of src/tools/linux_app_deployer.py), and the full-deploy      *)
(* workflow of src/api.py, over a small filesystem and service manager.    *)
(*                                                                         *)
(* One registry application is modelled (the three entries of config.py    *)
(* have the same shape); its descriptor is drawn in Init from Descriptors, *)
(* which holds the shipped shape and its variants.  "ghost" is an          *)
(* application id that is not a key of the registry.                       *)
(***************************************************************************)
EXTENDS Integers, Sequences, FiniteSets, TLC

\* ------------------------------------------------------------------ bounds
MaxContent == 1      \* file contents are 0..MaxContent; 0 is the empty file
MaxCalls == 2        \* invocations issued by a client in one behaviour

\* ------------------------------------------------------------ configuration
APPLICATIONS == {"famvest"}
AppIds == APPLICATIONS \cup {"ghost"}
ALLOWED_SERVICES == {"famvest-app", "netly-app", "duebook-app"}
\* The build command table: build kind -> command.
BUILD_COMMANDS == [maven |-> "mvn clean package -DskipTests"]
\* The lines parameter of the logs route: Query(100, ge=1, le=10000).
MinLines == 1
MaxLines == 10000
DefaultLines == 100

\* The descriptor of the registry application.  wildcard: '*' occurs in
\* artifact_path; symlink: the "symlink" key is present; service_name: the
\* configured unit, which need not be a member of ALLOWED_SERVICES.
\* build_type: the key into BUILD_COMMANDS.
Shipped == [wildcard |-> TRUE, symlink |-> TRUE, service_name |-> "famvest-app",
            build_type |-> "maven"]
Descriptors ==
    { Shipped,
      [Shipped EXCEPT !.wildcard = FALSE],
      [Shipped EXCEPT !.symlink = FALSE],
      [Shipped EXCEPT !.service_name = "sshd"] }

\* File names of the build output directory.  LiteralName is the file whose
\* name is the last component of artifact_path taken literally (for a
\* wildcard pattern the name "famvest-*.jar" itself, which the glob also
\* matches); VersionedName is another file, which the glob matches.
LiteralName == "artifact_path.name"
VersionedName == "famvest-1.0.jar"
Names == {LiteralName, VersionedName}
Contents == 0..MaxContent
\* The code reads modification times only to order files, so a time is the
\* rank of the file among the files of its directory (1 is the oldest; equal
\* ranks are equal times).
Times == 1..Cardinality(Names)
Files == [content : Contents, mtime : Times]
\* A directory is a function from the names present in it.
Dirs(V) == UNION { [D -> V] : D \in SUBSET Names }
Put(dir, n, v) == [x \in DOMAIN dir \cup {n} |-> IF x = n THEN v ELSE dir[x]]
Del(dir, n) == [x \in DOMAIN dir \ {n} |-> dir[x]]
EmptyDir == [x \in {} |-> 0]
Ranked(dir) == \A t \in Times : (\E n \in DOMAIN dir : dir[n].mtime = t) =>
                                 \A u \in 1..t : \E n \in DOMAIN dir : dir[n].mtime = u
BuildOutputs == { dir \in Dirs(Files) : Ranked(dir) }
\* Path.glob yields the entries of a directory in the order the filesystem
\* lists them: some order of the names, the same as long as the directory is
\* not changed.
DirOrder == <<VersionedName, LiteralName>>
DirOrders == { o \in [1..Cardinality(Names) -> Names] : \A n \in Names : \E i \in DOMAIN o : o[i] = n }

Procs == {"p1", "p2"}
SeqProcs == {"p1"}

WorkflowSteps == <<"checkout", "build", "verify", "deploy", "restart", "status">>
StepOps == {"checkout", "build", "verify", "deploy", "restart", "status", "logs"}
\* What a front-end exposes: the HTTP routes of api.py, the MCP tools, and
\* tools_api.stop_application, which has no route and is called directly.
Exposed(fe) ==
    CASE fe = "http" -> StepOps \cup {"workflow"}
      [] fe = "mcp" -> StepOps
      [] fe = "direct" -> {"stop"}
FrontEnds == {"http", "mcp", "direct"}

\* Outcomes of subprocess.run inside _run: exit code 0, a non-zero exit
\* code, TimeoutExpired, or an OSError raised by the launch itself.
RunOutcomes == {"exit0", "exit1", "timeout", "oserror"}

\* ------------------------------------------------------------------ results
AppNotAllowed == "Application '<id>' not allowed"
ServiceNotAllowed == "Service '<name>' not allowed"
\* A result is either a returned dict (ret = "value") or a raised exception
\* (ret = "raise"); "caught" is the {"error": str(e)} entry the workflow
\* records for a raised exception.
Value(succ, err, art, bk, code) ==
    [ret |-> "value", success |-> succ, exc |-> "none", error |-> err,
     artifact |-> art, backup |-> bk, code |-> code]
Raise(kind, msg) ==
    [ret |-> "raise", success |-> "absent", exc |-> kind, error |-> msg,
     artifact |-> "-", backup |-> "-", code |-> "-"]
NoResult == Value("absent", "", "-", "-", "-")
BoolStr(b) == IF b THEN "true" ELSE "false"

VARIABLES
    cfg,          \* the registry application's descriptor
    dir_order,    \* the order in which the build output directory lists its entries
    repo,         \* BOOLEAN: BASE_REPO_DIR/<app> exists
    artifacts,    \* the build output directory: name -> [content, mtime]
    deploy_dir,   \* BOOLEAN: the deploy directory exists
    target,       \* deployed artifacts in the deploy directory: name -> content
    bak,          \* <name>.bak files in the deploy directory: name -> content
    link,         \* what occupies deploy_dir/<symlink>
    req,          \* per process: the invocation in progress (or the last one)
    pc,           \* per process: position in the invocation
    cur,          \* per process: the step operation being executed
    loc,          \* per process: locals of deploy_artifact
    run,          \* per process: workflow_results
    response,     \* per process: what the last invocation answered
    effects,      \* per process: filesystem actions and child processes of the invocation
    deploys,      \* the last two finished deploy calls, oldest first
    calls         \* invocations issued so far

fs == <<repo, artifacts, deploy_dir, target, bak, link>>
fixed == <<cfg, dir_order>>
vars == <<cfg, dir_order, repo, artifacts, deploy_dir, target, bak, link, req, pc, cur, loc,
          run, response, effects, deploys, calls>>

NoLink == [kind |-> "none", to |-> "-"]
RegularFile == [kind |-> "file", to |-> "-"]
SymlinkTo(n) == [kind |-> "symlink", to |-> n]

\* workflow_results: "running" stands for the run in progress, whose dict has
\* no "status" key yet; "none" for the absent "failed_step" key.
EmptyRun == [steps |-> <<>>, status |-> "running", failed_step |-> "none"]
NoReq == [fe |-> "none", op |-> "none", app |-> "none", lines |-> DefaultLines]
NoLoc == [artifact |-> "-", had_target |-> FALSE, moved |-> FALSE, copied |-> 0,
          old_link |-> NoLink]
NoResponse == [kind |-> "none", success |-> "absent", detail |-> "", result |-> NoResult]

Init ==
    /\ cfg \in Descriptors
    /\ dir_order = DirOrder
    \* a server on which the application may have been checked out and built
    /\ repo \in BOOLEAN
    /\ artifacts \in IF repo THEN BuildOutputs ELSE {EmptyDir}
    /\ deploy_dir \in BOOLEAN
    /\ target = EmptyDir
    /\ bak = EmptyDir
    \* nothing is deployed; the link path may be occupied by a file put there by hand
    /\ link \in IF deploy_dir THEN {NoLink, RegularFile} ELSE {NoLink}
    /\ req = [p \in Procs |-> NoReq]
    /\ pc = [p \in Procs |-> "idle"]
    /\ cur = [p \in Procs |-> "-"]
    /\ loc = [p \in Procs |-> NoLoc]
    /\ run = [p \in Procs |-> EmptyRun]
    /\ response = [p \in Procs |-> NoResponse]
    /\ effects = [p \in Procs |-> {}]
    /\ deploys = <<>>
    /\ calls = 0


\* ------------------------------------------------------------ access guard
\* Faulty variants: a guard that lets every identifier through.
require_application_lax(a) == TRUE
require_service_lax(s) == TRUE

\* TRUE when the guard returns, FALSE when it raises ValueError.
require_application(a) == a \in APPLICATIONS
require_repo(a) == a \in APPLICATIONS
require_service(s) == s \in ALLOWED_SERVICES

ServiceOps == {"restart", "stop", "status", "logs"}
Pass == NoResult

\* The statements at the head of an operation, before its first filesystem
\* action or child process: the exception they raise, or Pass.
\*   tools_api: require_application in every operation (build repeats the
\*     membership test and looks its command up), then require_service in
\*     the service operations;
\*   MCP tools: require_repo in checkout, build, verify, deploy; the service
\*     operations index APPLICATIONS directly (KeyError for an unknown id)
\*     and then call require_service.
\* cmd = BUILD_COMMANDS[app_cfg["build_type"]]; if not cmd: raise ValueError
build_command(kind) ==
    IF kind \notin DOMAIN BUILD_COMMANDS THEN Raise("KeyError", kind)
    ELSE IF BUILD_COMMANDS[kind] = "" THEN Raise("ValueError", "Unsupported build type")
    ELSE Pass
Guard(fe, op, a) ==
    IF fe = "mcp"
    THEN IF op \in ServiceOps
         THEN IF a \notin APPLICATIONS THEN Raise("KeyError", a)
              ELSE IF ~require_service(cfg.service_name)
                   THEN Raise("ValueError", ServiceNotAllowed)
                   ELSE Pass
         ELSE IF ~require_repo(a) THEN Raise("ValueError", AppNotAllowed)
              ELSE IF op = "build" /\ a \notin APPLICATIONS
                   THEN Raise("ValueError", "Repository not allowed")
                   ELSE IF op = "build" THEN build_command(cfg.build_type)
                   ELSE Pass
    ELSE IF ~require_application(a) THEN Raise("ValueError", AppNotAllowed)
         ELSE IF op = "build" /\ a \notin APPLICATIONS
              THEN Raise("ValueError", "Repository not allowed")
              ELSE IF op = "build" THEN build_command(cfg.build_type)
              ELSE IF op \in ServiceOps /\ ~require_service(cfg.service_name)
                   THEN Raise("ValueError", ServiceNotAllowed)
                   ELSE Pass

\* --------------------------------------------------------- command executor
\* _run: the returned "code" for an outcome of subprocess.run; an OSError of
\* the launch is not caught by _run and propagates.
ExitCode(o) == CASE o = "exit0" -> "0" [] o = "exit1" -> "1" [] o = "timeout" -> "-1"
                 [] OTHER -> "-"
run_result(o) ==
    IF o = "oserror" THEN Raise("OSError", "launch failed")
    ELSE Value(BoolStr(ExitCode(o) = "0"), "", "-", "-", ExitCode(o))

\* ------------------------------------------------------ artifact resolution
\* Path.glob lists the matches in directory order; every name of the build
\* output directory matches the pattern.
\* Faulty variant: the listing order changes from one call to the next.
Listing_drifting(arts) ==
    SelectSeq(IF calls % 2 = 0 THEN dir_order
              ELSE [i \in DOMAIN dir_order |-> dir_order[Len(dir_order) + 1 - i]],
              LAMBDA n : n \in DOMAIN arts)
Listing(arts) == SelectSeq(dir_order, LAMBDA n : n \in DOMAIN arts)
\* Faulty variant: the sort is ascending, artifacts[0] is the oldest match.
OldestFirst(l, arts) ==
    l[CHOOSE i \in 1..Len(l) :
        /\ \A j \in 1..Len(l) : arts[l[j]].mtime >= arts[l[i]].mtime
        /\ \A j \in 1..(i - 1) : arts[l[j]].mtime > arts[l[i]].mtime]
\* list.sort(key=mtime, reverse=True) is stable: artifacts[0] is the first
\* entry of the listing whose mtime no other entry exceeds.
NewestFirst(l, arts) ==
    l[CHOOSE i \in 1..Len(l) :
        /\ \A j \in 1..Len(l) : arts[l[j]].mtime <= arts[l[i]].mtime
        /\ \A j \in 1..(i - 1) : arts[l[j]].mtime < arts[l[i]].mtime]
NoArtifact == "no artifact"
\* get_artifact_file: the resolved name, or NoArtifact for the ValueError
\* "No artifact found matching pattern".
get_artifact_file(d, arts) ==
    IF d.wildcard
    THEN IF Listing(arts) = <<>> THEN NoArtifact ELSE NewestFirst(Listing(arts), arts)
    ELSE LiteralName

\* ------------------------------------------------------------ the workflow
DictSet(steps, k, v) ==
    IF \E i \in 1..Len(steps) : steps[i].name = k
    THEN [i \in 1..Len(steps) |-> IF steps[i].name = k THEN [name |-> k, result |-> v]
                                   ELSE steps[i]]
    ELSE Append(steps, [name |-> k, result |-> v])
Keys(steps) == [i \in 1..Len(steps) |-> steps[i].name]
StepIndex(s) == CHOOSE i \in 1..Len(WorkflowSteps) : WorkflowSteps[i] = s

\* Faulty variants of record_step.
\* ... a falsy "success" does not stop the run (only an exception does):
record_step_continue(w, step, r) ==
    LET entry == IF r.ret = "raise" THEN [r EXCEPT !.ret = "caught"] ELSE r
        steps2 == DictSet(w.steps, step, entry)
    IN  IF step # "status" /\ r.ret = "raise"
        THEN [steps |-> steps2, status |-> "failed", failed_step |-> step]
        ELSE IF step = "status"
             THEN [steps |-> steps2, status |-> "completed", failed_step |-> w.failed_step]
             ELSE [steps |-> steps2, status |-> w.status, failed_step |-> w.failed_step]
\* ... the except branch does not enter the error in the steps map:
record_step_unrecorded(w, step, r) ==
    LET steps2 == IF r.ret = "raise" THEN w.steps ELSE DictSet(w.steps, step, r)
    IN  IF step # "status" /\ (r.ret = "raise" \/ r.success # "true")
        THEN [steps |-> steps2, status |-> "failed", failed_step |-> step]
        ELSE IF step = "status"
             THEN [steps |-> steps2, status |-> "completed", failed_step |-> w.failed_step]
             ELSE [steps |-> steps2, status |-> w.status, failed_step |-> w.failed_step]
\* ... the status step is held to the rule of steps 1-5:
record_step_status_strict(w, step, r) ==
    LET entry == IF r.ret = "raise" THEN [r EXCEPT !.ret = "caught"] ELSE r
        steps2 == DictSet(w.steps, step, entry)
    IN  IF r.ret = "raise" \/ r.success # "true"
        THEN [steps |-> steps2, status |-> "failed", failed_step |-> step]
        ELSE IF step = "status"
             THEN [steps |-> steps2, status |-> "completed", failed_step |-> w.failed_step]
             ELSE [steps |-> steps2, status |-> w.status, failed_step |-> w.failed_step]
\* ... the except branch does not set failed_step:
record_step_unnamed(w, step, r) ==
    LET entry == IF r.ret = "raise" THEN [r EXCEPT !.ret = "caught"] ELSE r
        steps2 == DictSet(w.steps, step, entry)
    IN  IF step # "status" /\ (r.ret = "raise" \/ r.success # "true")
        THEN [steps |-> steps2, status |-> "failed",
              failed_step |-> IF r.ret = "raise" THEN w.failed_step ELSE step]
        ELSE IF step = "status"
             THEN [steps |-> steps2, status |-> "completed", failed_step |-> w.failed_step]
             ELSE [steps |-> steps2, status |-> w.status, failed_step |-> w.failed_step]
\* ... only the deploy and restart steps have their "success" inspected:
record_step_lenient(w, step, r) ==
    LET entry == IF r.ret = "raise" THEN [r EXCEPT !.ret = "caught"] ELSE r
        steps2 == DictSet(w.steps, step, entry)
    IN  IF step \in {"deploy", "restart"} /\ (r.ret = "raise" \/ r.success # "true")
        THEN [steps |-> steps2, status |-> "failed", failed_step |-> step]
        ELSE IF step = "status"
             THEN [steps |-> steps2, status |-> "completed", failed_step |-> w.failed_step]
             ELSE [steps |-> steps2, status |-> w.status, failed_step |-> w.failed_step]

\* One step's try/except block of full_deployment_workflow: record the
\* step's result (or {"error": str(e)}), and for steps 1-5 stop as failed
\* when the step raised or its "success" is falsy.
record_step(w, step, r) ==
    LET entry == IF r.ret = "raise" THEN [r EXCEPT !.ret = "caught"] ELSE r
        steps2 == DictSet(w.steps, step, entry)
    IN  IF step # "status" /\ (r.ret = "raise" \/ r.success # "true")
        THEN [steps |-> steps2, status |-> "failed", failed_step |-> step]
        ELSE IF step = "status"
             THEN [steps |-> steps2, status |-> "completed", failed_step |-> w.failed_step]
             ELSE [steps |-> steps2, status |-> w.status, failed_step |-> w.failed_step]

\* ------------------------------------------------------------- front-ends
\* An HTTP route: {"success": result.get("success"), "data": result} (the
\* status and logs routes answer success = True), 400 for a ValueError, 500
\* for any other exception.  An MCP tool and a direct call hand the result
\* or the exception through.
route_response(fe, op, r) ==
    CASE fe = "http" ->
            IF r.ret = "value"
            THEN [kind |-> "200",
                  success |-> IF op \in {"status", "logs"} THEN "true" ELSE r.success,
                  detail |-> "", result |-> r]
            ELSE IF r.exc = "ValueError"
                 THEN [kind |-> "400", success |-> "absent", detail |-> r.error, result |-> r]
                 ELSE [kind |-> "500", success |-> "absent", detail |-> "generic", result |-> r]
      [] fe = "mcp" ->
            [kind |-> IF r.ret = "value" THEN "tool_result" ELSE "tool_error",
             success |-> r.success, detail |-> r.error, result |-> r]
      [] OTHER ->
            [kind |-> IF r.ret = "value" THEN "return" ELSE "raise",
             success |-> r.success, detail |-> r.error, result |-> r]
\* Faulty variants: a step's exception escapes as an HTTP error; the
\* envelope reports success whatever the run's status.
workflow_response_escapes(w) ==
    IF \E i \in 1..Len(w.steps) : w.steps[i].result.ret = "caught"
    THEN [kind |-> "500", success |-> "absent", detail |-> "generic", result |-> NoResult]
    ELSE [kind |-> "200", success |-> BoolStr(w.status = "completed"), detail |-> "",
          result |-> NoResult]
workflow_response_optimistic(w) ==
    [kind |-> "200", success |-> "true", detail |-> "", result |-> NoResult]
workflow_response(w) ==
    [kind |-> "200", success |-> BoolStr(w.status = "completed"), detail |-> "",
     result |-> NoResult]

\* The step the workflow goes on to after a step that did not fail.
\* Faulty variant: the step is tried again.
next_step_retry(step) == step
\* Faulty variant: after restart the run starts over with checkout.
next_step_cycle(step) ==
    IF step = "restart" THEN WorkflowSteps[1]
    ELSE WorkflowSteps[(CHOOSE i \in 1..Len(WorkflowSteps) : WorkflowSteps[i] = step) + 1]
next_step(step) == WorkflowSteps[StepIndex(step) + 1]

Last2(s) == IF Len(s) > 2 THEN SubSeq(s, Len(s) - 1, Len(s)) ELSE s

\* The operation cur[p] of process p ends with result r: inside a workflow
\* the engine records it and goes on or stops; otherwise the front-end
\* answers.  A finished deploy call is entered in the deploy log.
Finish(p, r) ==
    /\ IF req[p].op = "workflow"
       THEN LET w == record_step(run[p], cur[p], r) IN
            /\ run' = [run EXCEPT ![p] = w]
            /\ IF w.status = "running"
               THEN /\ cur' = [cur EXCEPT ![p] = next_step(cur[p])]
                    /\ pc' = [pc EXCEPT ![p] = "call"]
                    /\ UNCHANGED response
               ELSE /\ pc' = [pc EXCEPT ![p] = "done"]
                    /\ response' = [response EXCEPT ![p] = workflow_response(w)]
                    /\ UNCHANGED cur
       ELSE /\ response' = [response EXCEPT ![p] = route_response(req[p].fe, req[p].op, r)]
            /\ pc' = [pc EXCEPT ![p] = "done"]
            /\ UNCHANGED <<run, cur>>
    /\ deploys' = IF cur[p] = "deploy"
                  THEN Last2(Append(deploys, [name |-> loc[p].artifact,
                                              content |-> loc[p].copied,
                                              ok |-> r.ret = "value" /\ r.success = "true"]))
                  ELSE deploys

Did(p, e) == effects' = [effects EXCEPT ![p] = effects[p] \cup e]

\* A client issues an invocation through a front-end.
Invoke(p) ==
    /\ pc[p] = "idle"
    /\ calls < MaxCalls
    /\ \E fe \in FrontEnds : \E op \in Exposed(fe) : \E a \in AppIds :
          /\ req' = [req EXCEPT ![p] = [fe |-> fe, op |-> op, app |-> a,
                                         lines |-> DefaultLines]]
          /\ cur' = [cur EXCEPT ![p] = IF op = "workflow" THEN WorkflowSteps[1] ELSE op]
    /\ pc' = [pc EXCEPT ![p] = "call"]
    /\ calls' = calls + 1
    /\ UNCHANGED <<fixed, fs, loc, run, response, effects, deploys>>

\* The client has its answer: the invocation and its workflow run are
\* discarded.
Return(p) ==
    /\ pc[p] = "done"
    /\ pc' = [pc EXCEPT ![p] = "idle"]
    /\ req' = [req EXCEPT ![p] = NoReq]
    /\ cur' = [cur EXCEPT ![p] = "-"]
    /\ loc' = [loc EXCEPT ![p] = NoLoc]
    /\ run' = [run EXCEPT ![p] = EmptyRun]
    /\ response' = [response EXCEPT ![p] = NoResponse]
    /\ effects' = [effects EXCEPT ![p] = {}]
    /\ UNCHANGED <<fixed, fs, deploys, calls>>

\* Faulty variant: an operation is entered only while no other invocation
\* is inside deploy_artifact.
Calling_exclusive(p, op) ==
    /\ pc[p] = "call" /\ cur[p] = op
    /\ \A q \in Procs \ {p} : pc[q] \notin {"exists", "move", "copy", "link", "unlink",
                                             "symlink", "return"}
\* The operation is entered as soon as it is called: no lock is taken.
Calling(p, op) == pc[p] = "call" /\ cur[p] = op
Rejected(p) == Guard(req[p].fe, cur[p], req[p].app).ret = "raise"
\* The guard raised: the operation ends with nothing done.
Reject(p) ==
    /\ Finish(p, Guard(req[p].fe, cur[p], req[p].app))
    /\ UNCHANGED <<fixed, fs, req, loc, effects, calls>>


\* --------------------------------------------------------- step operations
\* Whether one of the commands launched in sequence hit its timeout: a
\* command is launched when no launch before it raised.
TimedOut(os) ==
    \E i \in 1..Len(os) : os[i] = "timeout" /\ \A j \in 1..(i - 1) : os[j] # "oserror"

\* Whether one of the commands launched in sequence ended with a code other
\* than 0 (a non-zero exit, or -1 for the timeout).
NonZero(os) ==
    \E i \in 1..Len(os) : /\ os[i] \in {"exit1", "timeout"}
                           /\ \A j \in 1..(i - 1) : os[j] # "oserror"

\* checkout_repository (both implementations have the same body): clone
\* when the checkout directory is absent, else fetch, checkout, pull; the
\* result is that of the last command.  A failed clone leaves no directory,
\* a clone killed by the timeout may leave one behind.  "git_timeout" and
\* "mvn_timeout" note that _run killed a command at its timeout, "git_failed"
\* that a git command ended with a code other than 0.
checkout_repository(p) ==
    /\ Calling(p, "checkout")
    /\ ~Rejected(p)
    /\ IF ~repo
       THEN \E o \in RunOutcomes : \E left \in BOOLEAN :
               /\ repo' = CASE o = "exit0" -> TRUE [] o = "timeout" -> left [] OTHER -> FALSE
               /\ Did(p, {"mkdir_repos"} \cup (IF o # "oserror" THEN {"git_clone"} ELSE {})
                                          \cup (IF o = "timeout" THEN {"git_timeout"} ELSE {})
                                          \cup (IF NonZero(<<o>>) THEN {"git_failed"} ELSE {}))
               /\ Finish(p, run_result(o))
       ELSE \E o1 \in RunOutcomes : \E o2 \in RunOutcomes : \E o3 \in RunOutcomes :
               /\ repo' = repo
               /\ Did(p, {"mkdir_repos"}
                         \cup (IF o1 # "oserror" THEN {"git_fetch"} ELSE {})
                         \cup (IF "oserror" \notin {o1, o2} THEN {"git_checkout"} ELSE {})
                         \cup (IF "oserror" \notin {o1, o2, o3} THEN {"git_pull"} ELSE {})
                         \cup (IF TimedOut(<<o1, o2, o3>>) THEN {"git_timeout"} ELSE {})
                         \cup (IF NonZero(<<o1, o2, o3>>) THEN {"git_failed"} ELSE {}))
               /\ Finish(p, IF "oserror" \in {o1, o2} THEN run_result("oserror")
                            ELSE run_result(o3))
    /\ UNCHANGED <<fixed, artifacts, deploy_dir, target, bak, link, req, loc, calls>>

\* build_application (both implementations have the same body): the build
\* command runs in the checkout directory and may leave the build output
\* directory in any state; a missing checkout directory makes the launch
\* raise before any process runs.
build_application(p) ==
    /\ Calling(p, "build")
    /\ ~Rejected(p)
    /\ IF ~repo
       THEN /\ Finish(p, Raise("OSError", "launch failed"))
            /\ UNCHANGED <<artifacts, effects>>
       ELSE \E o \in RunOutcomes : \E out \in BuildOutputs :
               /\ artifacts' = IF o = "oserror" THEN artifacts ELSE out
               /\ Did(p, (IF o = "oserror" THEN {} ELSE {"mvn"})
                         \cup (IF o = "timeout" THEN {"mvn_timeout"} ELSE {}))
               /\ Finish(p, run_result(o))
    /\ UNCHANGED <<fixed, repo, deploy_dir, target, bak, link, req, loc, calls>>

\* verify_artifact of tools_api: resolve the artifact, stat it.
verify_result_api(d, arts) ==
    LET n == get_artifact_file(d, arts) IN
    IF n = NoArtifact THEN Value("false", "No artifact found matching pattern", "-", "-", "-")
    ELSE IF n \notin DOMAIN arts THEN Raise("OSError", "stat: no such file")
    ELSE IF arts[n].content = 0 THEN Value("false", "Artifact size is zero", "-", "-", "-")
    ELSE Value("true", "", n, "-", "-")
\* verify_artifact of the MCP tools: the pattern is used as the path.
verify_result_mcp(d, arts) ==
    IF LiteralName \notin DOMAIN arts THEN Value("false", "Artifact not found", "-", "-", "-")
    ELSE IF arts[LiteralName].content = 0
         THEN Value("false", "Artifact size is zero", "-", "-", "-")
         ELSE Value("true", "", LiteralName, "-", "-")
verify_artifact(p) ==
    /\ Calling(p, "verify")
    /\ ~Rejected(p)
    /\ Finish(p, IF req[p].fe = "mcp" THEN verify_result_mcp(cfg, artifacts)
                 ELSE verify_result_api(cfg, artifacts))
    /\ UNCHANGED <<fixed, fs, req, loc, effects, calls>>

\* restart, stop, status, logs: one systemctl or journalctl command.  The
\* status and logs results carry no "success" key.  journalctl is run with
\* "-n", str(lines), the lines argument of the request.
ServiceCommand(op) ==
    CASE op = "restart" -> "systemctl_restart" [] op = "stop" -> "systemctl_stop"
      [] op = "status" -> "systemctl_status" [] op = "logs" -> "journalctl"
service_result(op, o) ==
    IF o = "oserror" THEN run_result(o)
    ELSE IF op \in {"restart", "stop"} THEN run_result(o)
    ELSE Value("absent", "", "-", "-", ExitCode(o))
service_operation(p, op) ==
    /\ Calling(p, op)
    /\ ~Rejected(p)
    /\ \E o \in RunOutcomes :
          /\ Did(p, IF o = "oserror" THEN {} ELSE {ServiceCommand(op)})
          /\ Finish(p, service_result(op, o))
    /\ UNCHANGED <<fixed, fs, req, loc, calls>>
restart_application(p) == service_operation(p, "restart")
stop_application(p) == service_operation(p, "stop")
get_application_status(p) == service_operation(p, "status")
get_recent_logs(p) == service_operation(p, "logs")


\* ------------------------------------------------------------------ deploy
\* deploy_artifact runs as a sequence of filesystem calls, one per step, so
\* that other invocations can come between them.
\*
\* The artifact deploy resolves: tools_api calls get_artifact_file and turns
\* its ValueError into "Artifact not found, build first" (a path without a
\* wildcard is not checked for existence); the MCP tool uses the pattern as
\* the path and raises when no such file exists.
deploy_resolve(fe, d, arts) ==
    IF fe = "mcp"
    THEN IF LiteralName \in DOMAIN arts THEN LiteralName ELSE NoArtifact
    ELSE get_artifact_file(d, arts)
\* Whether deploy goes on to manage the stable link after the copy: the
\* MCP tool has no such code.
manages_symlink(fe, d) == fe # "mcp" /\ d.symlink

Goto(p, l) == pc' = [pc EXCEPT ![p] = l]
Stay == UNCHANGED <<cur, run, response, deploys>>
Deploying(p, l) == pc[p] = l /\ cur[p] = "deploy"

\* resolve the artifact, mkdir(parents=True, exist_ok=True)
deploy_begin(p) ==
    /\ Calling(p, "deploy")
    /\ ~Rejected(p)
    /\ LET n == deploy_resolve(req[p].fe, cfg, artifacts) IN
       IF n = NoArtifact
       THEN /\ Finish(p, Raise("ValueError", "Artifact not found, build first"))
            /\ UNCHANGED <<deploy_dir, loc, effects>>
       ELSE /\ deploy_dir' = TRUE
            /\ Did(p, {"mkdir_deploy"})
            /\ loc' = [loc EXCEPT ![p] = [NoLoc EXCEPT !.artifact = n,
                                                       !.had_target = n \in DOMAIN target,
                                                       !.old_link = link]]
            /\ Goto(p, "exists")
            /\ Stay
    /\ UNCHANGED <<fixed, repo, artifacts, target, bak, link, req, calls>>

\* if target.exists():
deploy_exists(p) ==
    /\ Deploying(p, "exists")
    /\ Goto(p, IF loc[p].artifact \in DOMAIN target THEN "move" ELSE "copy")
    /\ Stay
    /\ UNCHANGED <<fixed, fs, req, loc, effects, calls>>

\* shutil.move(target, backup): a rename that replaces an earlier backup;
\* it raises when the target is gone or the filesystem refuses.
\* Faulty variant: the old target is removed without being kept as the backup.
move_to_backup_dropped(n, t, b) == [target |-> Del(t, n), bak |-> b]
move_to_backup(n, t, b) == [target |-> Del(t, n), bak |-> Put(b, n, t[n])]
deploy_move(p) ==
    /\ Deploying(p, "move")
    /\ LET n == loc[p].artifact IN
       \/ /\ n \in DOMAIN target
          /\ target' = move_to_backup(n, target, bak).target
          /\ bak' = move_to_backup(n, target, bak).bak
          /\ Did(p, {"move"})
          /\ loc' = [loc EXCEPT ![p].moved = TRUE]
          /\ Goto(p, "copy")
          /\ Stay
       \/ /\ Finish(p, Raise("OSError", "move failed"))
          /\ UNCHANGED <<target, bak, effects, loc>>
    /\ UNCHANGED <<fixed, repo, artifacts, deploy_dir, link, req, calls>>

\* shutil.copy2(artifact, target) returning: the target holds the content of
\* the artifact.
\* Faulty variant: the copy returns with the target empty.
copy2_truncated(n, arts, t) == Put(t, n, 0)
copy2(n, arts, t) == Put(t, n, arts[n].content)

\* shutil.copy2(artifact, target): on failure the target is either not
\* created or left truncated.
deploy_copy(p) ==
    /\ Deploying(p, "copy")
    /\ LET n == loc[p].artifact IN
       \/ /\ n \in DOMAIN artifacts
          /\ target' = copy2(n, artifacts, target)
          /\ Did(p, {"copy"})
          /\ loc' = [loc EXCEPT ![p].copied = artifacts[n].content]
          /\ Goto(p, IF manages_symlink(req[p].fe, cfg) THEN "link" ELSE "return")
          /\ Stay
       \/ /\ Finish(p, Raise("OSError", "copy failed"))
          /\ \/ UNCHANGED <<target, effects>>
             \/ /\ n \in DOMAIN artifacts
                /\ target' = Put(target, n, 0)
                /\ Did(p, {"copy"})
          /\ UNCHANGED loc
    /\ UNCHANGED <<fixed, repo, artifacts, deploy_dir, bak, link, req, calls>>

\* if symlink_path.exists() or symlink_path.is_symlink():
deploy_link(p) ==
    /\ Deploying(p, "link")
    /\ Goto(p, IF link.kind # "none" THEN "unlink" ELSE "symlink")
    /\ Stay
    /\ UNCHANGED <<fixed, fs, req, loc, effects, calls>>

\* symlink_path.unlink(): raises when nothing is there any more
deploy_unlink(p) ==
    /\ Deploying(p, "unlink")
    /\ IF link.kind = "none"
       THEN /\ Finish(p, Raise("OSError", "unlink: no such file"))
            /\ UNCHANGED <<link, effects>>
       ELSE /\ link' = NoLink
            /\ Did(p, {"unlink"})
            /\ Goto(p, "symlink")
            /\ Stay
    /\ UNCHANGED <<fixed, repo, artifacts, deploy_dir, target, bak, req, loc, calls>>

\* symlink_path.symlink_to(target): raises when the path is occupied
deploy_symlink(p) ==
    /\ Deploying(p, "symlink")
    /\ IF link.kind # "none"
       THEN /\ Finish(p, Raise("OSError", "symlink: file exists"))
            /\ UNCHANGED <<link, effects>>
       ELSE /\ link' = SymlinkTo(loc[p].artifact)
            /\ Did(p, {"symlink"})
            /\ Goto(p, "return")
            /\ Stay
    /\ UNCHANGED <<fixed, repo, artifacts, deploy_dir, target, bak, req, loc, calls>>

\* return {"success": True, ..., "backup": str(backup) if backup.exists() else None}
deploy_return(p) ==
    /\ Deploying(p, "return")
    /\ Finish(p, Value("true", "", loc[p].artifact,
                       IF loc[p].artifact \in DOMAIN bak THEN "path" ELSE "null", "-"))
    /\ UNCHANGED <<fixed, fs, req, loc, effects, calls>>

deploy_artifact(p) ==
    \/ deploy_begin(p)
    \/ deploy_exists(p)
    \/ deploy_move(p)
    \/ deploy_copy(p)
    \/ deploy_link(p)
    \/ deploy_unlink(p)
    \/ deploy_symlink(p)
    \/ deploy_return(p)

\* ----------------------------------------------------------- specification
Step(p) ==
    \/ Invoke(p)
    \/ Return(p)
    \/ (pc[p] = "call" /\ Rejected(p) /\ Reject(p))
    \/ checkout_repository(p)
    \/ build_application(p)
    \/ verify_artifact(p)
    \/ deploy_artifact(p)
    \/ restart_application(p)
    \/ stop_application(p)
    \/ get_application_status(p)
    \/ get_recent_logs(p)

\* One client: invocations are issued one after another.
Next == \E p \in SeqProcs : Step(p)
Spec == Init /\ [][Next]_vars

\* ------------------------------------------------- operations with inputs
\* build over registries that also hold a build kind missing from
\* BUILD_COMMANDS, and logs with a lines argument, given or omitted.
InputDescriptors == Descriptors \cup {[Shipped EXCEPT !.build_type = "gradle"]}
LinesInputs == {MinLines - 1, MinLines, DefaultLines, MaxLines, MaxLines + 1}
InputsInit ==
    /\ cfg \in InputDescriptors
    /\ dir_order = DirOrder
    /\ repo \in BOOLEAN
    /\ artifacts \in IF repo THEN BuildOutputs ELSE {EmptyDir}
    /\ deploy_dir = FALSE
    /\ target = EmptyDir
    /\ bak = EmptyDir
    /\ link = NoLink
    /\ req = [p \in Procs |-> NoReq]
    /\ pc = [p \in Procs |-> "idle"]
    /\ cur = [p \in Procs |-> "-"]
    /\ loc = [p \in Procs |-> NoLoc]
    /\ run = [p \in Procs |-> EmptyRun]
    /\ response = [p \in Procs |-> NoResponse]
    /\ effects = [p \in Procs |-> {}]
    /\ deploys = <<>>
    /\ calls = 0

\* The front-end's check of the lines argument: the logs route declares
\* Query(100, ge=1, le=10000); the MCP tool declares lines: int = 100.
query_valid(fe, n) == fe = "http" => n \in MinLines..MaxLines
\* The request with its lines argument bound: the given value or the default.
BoundRequest(fe, op, a, given, n) ==
    [fe |-> fe, op |-> op, app |-> a, lines |-> IF given THEN n ELSE DefaultLines]

InvokeInputs(p) ==
    /\ pc[p] = "idle"
    /\ calls < MaxCalls
    /\ \E fe \in {"http", "mcp"} : \E op \in {"build", "logs"} : \E a \in AppIds :
       \E given \in BOOLEAN : \E n \in LinesInputs :
          /\ op = "build" => ~given
          /\ query_valid(fe, BoundRequest(fe, op, a, given, n).lines)
          /\ req' = [req EXCEPT ![p] = BoundRequest(fe, op, a, given, n)]
          /\ cur' = [cur EXCEPT ![p] = op]
    /\ pc' = [pc EXCEPT ![p] = "call"]
    /\ calls' = calls + 1
    /\ UNCHANGED <<fixed, fs, loc, run, response, effects, deploys>>

\* A logs request whose lines argument the route refuses: answered 422, the
\* handler is not entered.
RejectQuery(p) ==
    /\ pc[p] = "idle"
    /\ calls < MaxCalls
    /\ \E fe \in {"http", "mcp"} : \E a \in AppIds : \E n \in LinesInputs :
          /\ ~query_valid(fe, n)
          /\ req' = [req EXCEPT ![p] = BoundRequest(fe, "logs", a, TRUE, n)]
          /\ cur' = [cur EXCEPT ![p] = "logs"]
    /\ pc' = [pc EXCEPT ![p] = "done"]
    /\ response' = [response EXCEPT ![p] = [kind |-> "422", success |-> "absent",
                                             detail |-> "lines", result |-> NoResult]]
    /\ calls' = calls + 1
    /\ UNCHANGED <<fixed, fs, loc, run, effects, deploys>>

NextInputs ==
    \E p \in SeqProcs :
        \/ InvokeInputs(p)
        \/ RejectQuery(p)
        \/ Return(p)
        \/ (pc[p] = "call" /\ Rejected(p) /\ Reject(p))
        \/ build_application(p)
        \/ get_recent_logs(p)
SpecInputs == InputsInit /\ [][NextInputs]_vars

\* ------------------------------------------------------ workflow runs only
\* A client of the workflow route, who starts a first run and, when it has
\* ended, a second one.  A run in progress always takes its next
\* step: the workflow and the step operations are synchronous code, every
\* filesystem call returns, and every child process exits or is killed at
\* the timeout of _run.
InvokeWorkflow(p) ==
    /\ pc[p] = "idle"
    /\ calls < Cardinality(Procs)
    /\ \E a \in AppIds :
          req' = [req EXCEPT ![p] = [fe |-> "http", op |-> "workflow", app |-> a,
                                     lines |-> DefaultLines]]
    /\ cur' = [cur EXCEPT ![p] = WorkflowSteps[1]]
    /\ pc' = [pc EXCEPT ![p] = "call"]
    /\ calls' = calls + 1
    /\ UNCHANGED <<fixed, fs, loc, run, response, effects, deploys>>
RunStep(p) ==
    \/ (pc[p] = "call" /\ Rejected(p) /\ Reject(p))
    \/ checkout_repository(p)
    \/ build_application(p)
    \/ verify_artifact(p)
    \/ deploy_artifact(p)
    \/ restart_application(p)
    \/ get_application_status(p)
NextTerm == \E p \in SeqProcs : InvokeWorkflow(p) \/ Return(p) \/ RunStep(p)
SpecTerm == Init /\ [][NextTerm]_vars /\ \A p \in SeqProcs : WF_vars(RunStep(p))

\* ------------------------------------------------ concurrent invocations
\* Every invocation runs on its own request-handling task: two clients call
\* deploy (through either front-end) or the workflow for the registry
\* application at the same time, on a server where the application has been
\* built and may have been deployed before.
Deployed == { d \in Dirs(Contents) : Cardinality(DOMAIN d) <= 1 }
ConcInit ==
    /\ cfg \in {Shipped, [Shipped EXCEPT !.symlink = FALSE]}
    /\ dir_order = DirOrder
    /\ repo = TRUE
    /\ artifacts \in BuildOutputs
    /\ deploy_dir = TRUE
    /\ target \in Deployed
    /\ bak = EmptyDir
    /\ link \in IF cfg.symlink THEN {NoLink} \cup {SymlinkTo(n) : n \in DOMAIN target}
               ELSE {NoLink}
    /\ req = [p \in Procs |-> NoReq]
    /\ pc = [p \in Procs |-> "idle"]
    /\ cur = [p \in Procs |-> "-"]
    /\ loc = [p \in Procs |-> NoLoc]
    /\ run = [p \in Procs |-> EmptyRun]
    /\ response = [p \in Procs |-> NoResponse]
    /\ effects = [p \in Procs |-> {}]
    /\ deploys = <<>>
    /\ calls = 0

ConcOps == {"deploy"}
\* Each client issues one invocation.
InvokeConc(p) ==
    /\ pc[p] = "idle"
    /\ calls < Cardinality(Procs)
    /\ \E fe \in {"http", "mcp"} : \E op \in ConcOps \cap Exposed(fe) : \E a \in APPLICATIONS :
          /\ req' = [req EXCEPT ![p] = [fe |-> fe, op |-> op, app |-> a,
                                         lines |-> DefaultLines]]
          /\ cur' = [cur EXCEPT ![p] = IF op = "workflow" THEN WorkflowSteps[1] ELSE op]
    /\ pc' = [pc EXCEPT ![p] = "call"]
    /\ calls' = calls + 1
    /\ UNCHANGED <<fixed, fs, loc, run, response, effects, deploys>>

StepConc(p) ==
    \/ InvokeConc(p)
    \/ Return(p)
    \/ deploy_artifact(p)
NextConc == \E p \in Procs : StepConc(p)
SpecConc == ConcInit /\ [][NextConc]_vars

\* ------------------------------------- a workflow run with company
\* One client starts the full-deploy workflow for the registry application
\* while another client calls the checkout or the build route for it: each
\* request is served on its own task and nothing orders the two.  The
\* server has the application checked out and built, and either nothing
\* deployed or one target with the stable link on it.
RaceInit ==
    /\ cfg \in {Shipped, [Shipped EXCEPT !.wildcard = FALSE]}
    /\ dir_order = DirOrder
    /\ repo = TRUE
    /\ artifacts \in BuildOutputs
    /\ deploy_dir = TRUE
    /\ target \in Deployed
    /\ bak = EmptyDir
    /\ link \in IF target = EmptyDir THEN {NoLink} ELSE {SymlinkTo(n) : n \in DOMAIN target}
    /\ req = [p \in Procs |-> NoReq]
    /\ pc = [p \in Procs |-> "idle"]
    /\ cur = [p \in Procs |-> "-"]
    /\ loc = [p \in Procs |-> NoLoc]
    /\ run = [p \in Procs |-> EmptyRun]
    /\ response = [p \in Procs |-> NoResponse]
    /\ effects = [p \in Procs |-> {}]
    /\ deploys = <<>>
    /\ calls = 0

RaceOps == {"checkout", "build"}
\* Each client issues one invocation: the first the workflow, the other one
\* of RaceOps.
InvokeRace(p) ==
    /\ pc[p] = "idle"
    /\ calls < Cardinality(Procs)
    /\ \E fe \in {"http"} : \E op \in Exposed(fe) : \E a \in APPLICATIONS :
          /\ op \in IF p \in SeqProcs THEN {"workflow"} ELSE RaceOps
          /\ req' = [req EXCEPT ![p] = [fe |-> fe, op |-> op, app |-> a,
                                         lines |-> DefaultLines]]
          /\ cur' = [cur EXCEPT ![p] = IF op = "workflow" THEN WorkflowSteps[1] ELSE op]
    /\ pc' = [pc EXCEPT ![p] = "call"]
    /\ calls' = calls + 1
    /\ UNCHANGED <<fixed, fs, loc, run, response, effects, deploys>>

StepRace(p) ==
    \/ InvokeRace(p)
    \/ Return(p)
    \/ checkout_repository(p)
    \/ build_application(p)
    \/ verify_artifact(p)
    \/ deploy_artifact(p)
    \/ restart_application(p)
    \/ get_application_status(p)
NextRace == \E p \in Procs : StepRace(p)
SpecRace == RaceInit /\ [][NextRace]_vars

\* ------------------------------------------- artifact resolution on its own
\* get_artifact_file called repeatedly over every build output directory:
\* any files, any modification times (equal ones included), any listing
\* order, descriptors with and without a wildcard.
ResolveInit ==
    /\ cfg \in Descriptors
    /\ dir_order \in DirOrders
    /\ repo = TRUE
    /\ artifacts \in Dirs(Files)
    /\ deploy_dir = FALSE
    /\ target = EmptyDir
    /\ bak = EmptyDir
    /\ link = NoLink
    /\ req = [p \in Procs |-> NoReq]
    /\ pc = [p \in Procs |-> "idle"]
    /\ cur = [p \in Procs |-> "-"]
    /\ loc = [p \in Procs |-> NoLoc]
    /\ run = [p \in Procs |-> EmptyRun]
    /\ response = [p \in Procs |-> NoResponse]
    /\ effects = [p \in Procs |-> {}]
    /\ deploys = <<>>
    /\ calls = 0

\* One call; loc[p].artifact is what it returned (NoArtifact when it raised),
\* calls counts the calls made since the directory last changed.
Resolve(p) ==
    /\ calls < MaxCalls
    /\ loc' = [loc EXCEPT ![p].artifact = get_artifact_file(cfg, artifacts)]
    /\ calls' = calls + 1
    /\ UNCHANGED <<fixed, fs, req, pc, cur, run, response, effects, deploys>>

\* The build output directory is changed between calls.
Rewrite ==
    /\ artifacts' \in Dirs(Files)
    /\ dir_order' \in DirOrders
    /\ <<artifacts', dir_order'>> # <<artifacts, dir_order>>
    /\ loc' = [p \in Procs |-> NoLoc]
    /\ calls' = 0
    /\ UNCHANGED <<cfg, repo, deploy_dir, target, bak, link, req, pc, cur, run,
                   response, effects, deploys>>

NextResolve == (\E p \in SeqProcs : Resolve(p)) \/ Rewrite
SpecResolve == ResolveInit /\ [][NextResolve]_vars


\* ================================================================== claims
IsWorkflow(p) == req[p].op = "workflow"
Steps(p) == run[p].steps
Failing(e) == e.ret = "caught" \/ e.success # "true"
Has(p, k) == \E i \in 1..Len(Steps(p)) : Steps(p)[i].name = k
Entry(p, k) == Steps(p)[CHOOSE i \in 1..Len(Steps(p)) : Steps(p)[i].name = k].result
DeployStages == {"exists", "move", "copy", "link", "unlink", "symlink", "return"}

\* C1: fail-fast.  In a workflow run, once one of the steps checkout, build,
\* verify, deploy, restart is recorded with a success flag that is not true
\* or with a raised error, it is the last step recorded and the last step
\* attempted, the run has ended, status = failed and failed_step names it.
C1_FailFast ==
    \A p \in Procs : IsWorkflow(p) =>
        \A i \in 1..Len(Steps(p)) :
            (Steps(p)[i].name # "status" /\ Failing(Steps(p)[i].result)) =>
                /\ i = Len(Steps(p))
                /\ pc[p] = "done"
                /\ cur[p] = Steps(p)[i].name
                /\ run[p].status = "failed"
                /\ run[p].failed_step = Steps(p)[i].name
\* a run that ended because its deploy step raised
C1_Witness ==
    \E p \in Procs : /\ IsWorkflow(p) /\ pc[p] = "done"
                     /\ run[p].failed_step = "deploy"
                     /\ Has(p, "deploy") /\ Entry(p, "deploy").ret = "caught"

\* C2: the keys of the steps map are exactly the steps attempted so far, a
\* prefix of checkout, build, verify, deploy, restart, status (the step in
\* progress is entered when it returns or raises); a run that failed at
\* build holds exactly checkout and build.
Attempted(p) ==
    IF pc[p] = "done" THEN StepIndex(cur[p]) ELSE StepIndex(cur[p]) - 1
C2_StepsArePrefix ==
    \A p \in Procs : (IsWorkflow(p) /\ pc[p] # "idle") =>
        /\ Keys(Steps(p)) = SubSeq(WorkflowSteps, 1, Len(Steps(p)))
        /\ Len(Steps(p)) = Attempted(p)
        /\ (Has(p, "build") /\ Entry(p, "build").success = "false")
              => Keys(Steps(p)) = <<"checkout", "build">>
\* build returned success = false
C2_Witness ==
    \E p \in Procs : /\ IsWorkflow(p) /\ pc[p] = "done"
                     /\ Has(p, "build") /\ Entry(p, "build").ret = "value"
                     /\ Entry(p, "build").success = "false"
                     /\ Keys(Steps(p)) = <<"checkout", "build">>

\* C3: happy path.  When checkout, build, verify, deploy and restart are all
\* recorded with success = true, the run goes on to the status step and ends
\* completed, answered success = true, with all six keys in canonical order,
\* whether the status step returned or raised.
FiveSucceeded(p) ==
    /\ Len(Steps(p)) >= 5
    /\ \A i \in 1..5 : Steps(p)[i].name = WorkflowSteps[i] /\ ~Failing(Steps(p)[i].result)
C3_HappyPath ==
    \A p \in Procs : (IsWorkflow(p) /\ FiveSucceeded(p)) =>
        IF pc[p] = "done"
        THEN /\ run[p].status = "completed"
             /\ run[p].failed_step = "none"
             /\ Keys(Steps(p)) = WorkflowSteps
             /\ response[p].kind = "200" /\ response[p].success = "true"
        ELSE pc[p] = "call" /\ cur[p] = "status" /\ run[p].status = "running"
\* a completed run whose status step raised
C3_Witness ==
    \E p \in Procs : /\ IsWorkflow(p) /\ pc[p] = "done" /\ FiveSucceeded(p)
                     /\ Has(p, "status") /\ Entry(p, "status").ret = "caught"

\* C4: the status of a workflow run is one of running, completed, failed,
\* and failed_step is set exactly when status = failed.
C4_StatusAndFailedStep ==
    \A p \in Procs :
        /\ run[p].status \in {"running", "completed", "failed"}
        /\ (run[p].failed_step # "none") <=> (run[p].status = "failed")
        /\ (IsWorkflow(p) /\ pc[p] = "done") => run[p].status # "running"
        /\ run[p].status # "running" => pc[p] = "done"
\* a run that failed because its checkout step raised
C4_Witness ==
    \E p \in Procs : /\ IsWorkflow(p) /\ run[p].status = "failed"
                     /\ run[p].failed_step = "checkout"
                     /\ Entry(p, "checkout").ret = "caught"


\* C5: for an application id that is not in the registry, no operation of
\* either implementation, and no workflow run, performs a filesystem action
\* or starts a child process: it never gets past its guard.
C5_UnknownAppNoSideEffect ==
    \A p \in Procs : req[p].app \notin APPLICATIONS =>
        /\ effects[p] = {}
        /\ pc[p] \notin DeployStages
        /\ pc[p] = "call" => Rejected(p)
\* the MCP restart tool was called with an unknown id and has answered
C5_Witness ==
    \E p \in Procs : /\ req[p].app = "ghost" /\ req[p].fe = "mcp" /\ req[p].op = "restart"
                     /\ pc[p] = "done" /\ response[p].kind = "tool_error"

\* C6: for an application id that is not in the registry, every step
\* operation of both implementations and the workflow route fail with the
\* InvalidApplication validation error (ValueError "Application '<id>' not
\* allowed"): no other error kind, no ordinary result value.
FailedWithInvalidApplication(p) ==
    IF IsWorkflow(p)
    THEN \* the run failed at its first step, on the validation error
         /\ run[p].status = "failed" /\ run[p].failed_step = "checkout"
         /\ Entry(p, "checkout").ret = "caught"
         /\ Entry(p, "checkout").exc = "ValueError"
         /\ Entry(p, "checkout").error = AppNotAllowed
    ELSE /\ response[p].kind \in {"400", "tool_error", "raise"}
         /\ response[p].result.ret = "raise"
         /\ response[p].result.exc = "ValueError"
         /\ response[p].detail = AppNotAllowed
C6_UnknownAppInvalidApplication ==
    \A p \in Procs : (pc[p] = "done" /\ req[p].app \notin APPLICATIONS) =>
        FailedWithInvalidApplication(p)

\* C7: for a registry application whose configured service is not in the
\* allow-list, no invocation runs systemctl or journalctl, and restart,
\* stop, status and logs end with the InvalidService error (ValueError
\* "Service '<name>' not allowed").
ServiceCommands == {"systemctl_restart", "systemctl_stop", "systemctl_status", "journalctl"}
C7_DisallowedServiceNeverControlled ==
    \A p \in Procs :
        (req[p].app \in APPLICATIONS /\ cfg.service_name \notin ALLOWED_SERVICES) =>
            /\ effects[p] \cap ServiceCommands = {}
            /\ (pc[p] = "done" /\ req[p].op \in ServiceOps) =>
                  /\ response[p].result.ret = "raise"
                  /\ response[p].result.exc = "ValueError"
                  /\ response[p].detail = ServiceNotAllowed
\* stop was called for a valid application whose service is not allowed
C7_Witness ==
    \E p \in Procs : /\ req[p].app \in APPLICATIONS /\ req[p].op = "stop"
                     /\ cfg.service_name \notin ALLOWED_SERVICES
                     /\ pc[p] = "done" /\ response[p].kind = "raise"

\* C8 (as stated): after two or more successive successful deploys, whatever
\* artifact names they resolved, the deploy directory holds exactly one .bak
\* file, whose content is what the deploy before the last one deployed.
NoDeployRunning == \A p \in Procs : pc[p] \in {"idle", "done"}
TwoSuccessiveDeploys ==
    /\ NoDeployRunning
    /\ Len(deploys) = 2 /\ deploys[1].ok /\ deploys[2].ok
C8_OneBackupOfPreviousDeploy ==
    TwoSuccessiveDeploys =>
        /\ Cardinality(DOMAIN bak) = 1
        /\ \A n \in DOMAIN bak : bak[n] = deploys[1].content
\* C8 (amended): after two successive successful deploy calls that resolved
\* the same artifact file name, the deploy directory holds the backup
\* <name>.bak and its content is what the first of the two deployed.
C8_BackupOfPreviousDeploySameName ==
    (TwoSuccessiveDeploys /\ deploys[1].name = deploys[2].name) =>
        /\ deploys[2].name \in DOMAIN bak
        /\ bak[deploys[2].name] = deploys[1].content
        /\ target[deploys[2].name] = deploys[2].content
\* two successive deploys of one name with different contents
C8_Witness ==
    /\ TwoSuccessiveDeploys
    /\ deploys[1].name = deploys[2].name
    /\ deploys[1].content # deploys[2].content

\* C9: when a file occupied the target path at the start of a deploy, the
\* target path holds a file when that deploy returns or raises.
C9_TargetNeverLost ==
    \A p \in Procs :
        (cur[p] = "deploy" /\ pc[p] = "done" /\ loc[p].had_target) =>
            loc[p].artifact \in DOMAIN target

\* C10: for an application with a configured stable link, after a successful
\* deploy through either front-end the link resolves to the target that the
\* deploy wrote.
DeploySucceeded(p) ==
    /\ pc[p] = "done"
    /\ \/ req[p].op = "deploy" /\ response[p].result.ret = "value"
                               /\ response[p].result.success = "true"
       \/ IsWorkflow(p) /\ Has(p, "deploy") /\ ~Failing(Entry(p, "deploy"))
C10_LinkResolvesToTarget ==
    \A p \in Procs : (cfg.symlink /\ DeploySucceeded(p)) =>
        /\ link = SymlinkTo(loc[p].artifact)
        /\ loc[p].artifact \in DOMAIN target

\* C11: a deploy called while the artifact is missing (no file matches the
\* wildcard pattern, or the file a pattern without wildcard names does not
\* exist) ends with the error "Artifact not found, build first" and has
\* moved no target to .bak, copied nothing and not touched the stable link.
ArtifactMissing == IF cfg.wildcard THEN DOMAIN artifacts = {}
                   ELSE LiteralName \notin DOMAIN artifacts
DeployChanges == {"move", "copy", "unlink", "symlink"}
DeployEnded(p) == cur[p] = "deploy" /\ pc[p] = "done" /\ req[p].app \in APPLICATIONS
LastResult(p) == IF IsWorkflow(p) THEN Entry(p, "deploy") ELSE response[p].result
C11_MissingArtifactLeavesDeployDir ==
    \A p \in Procs : (DeployEnded(p) /\ ArtifactMissing) =>
        /\ LastResult(p).ret \in {"raise", "caught"}
        /\ LastResult(p).error = "Artifact not found, build first"
        /\ effects[p] \cap DeployChanges = {}
        /\ link = loc[p].old_link \/ loc[p].artifact = "-"

\* C12: for a registry application verify always returns a value, with
\* success = true exactly when the resolved artifact (the newest match of a
\* wildcard pattern, the named file otherwise) exists and is not empty.
VerifyEnded(p) == cur[p] = "verify" /\ pc[p] = "done" /\ req[p].app \in APPLICATIONS
VerifyResult(p) == IF IsWorkflow(p) THEN Entry(p, "verify") ELSE response[p].result
ResolvedPresent ==
    LET n == get_artifact_file(cfg, artifacts) IN
    n # NoArtifact /\ n \in DOMAIN artifacts /\ artifacts[n].content > 0
C12_VerifyTotal ==
    \A p \in Procs : VerifyEnded(p) =>
        /\ VerifyResult(p).ret = "value"
        /\ VerifyResult(p).success = BoolStr(ResolvedPresent)

\* C13: for a wildcard pattern, resolution returns a file of the build
\* output directory whose modification time no other match exceeds, and it
\* fails with "No artifact found matching pattern" exactly when nothing
\* matches.
Resolved(p) == loc[p].artifact # "-"
C13_ResolvesNewestMatch ==
    \A p \in Procs : (cfg.wildcard /\ Resolved(p)) =>
        /\ (loc[p].artifact = NoArtifact) <=> (DOMAIN artifacts = {})
        /\ loc[p].artifact # NoArtifact =>
              /\ loc[p].artifact \in DOMAIN artifacts
              /\ \A n \in DOMAIN artifacts :
                    artifacts[n].mtime <= artifacts[loc[p].artifact].mtime
\* the newest of two matches was returned, and it is not the one listed first
C13_Witness ==
    \E p \in Procs : /\ cfg.wildcard /\ Resolved(p)
                     /\ loc[p].artifact \in DOMAIN artifacts
                     /\ loc[p].artifact # dir_order[1]
                     /\ \E n \in DOMAIN artifacts :
                           artifacts[n].mtime < artifacts[loc[p].artifact].mtime

HitTimeout(p, step) ==
    \/ step = "checkout" /\ "git_timeout" \in effects[p]
    \/ step = "build" /\ "mvn_timeout" \in effects[p]
StepEnded(p, step) ==
    IF IsWorkflow(p) THEN Has(p, step) ELSE req[p].op = step /\ pc[p] = "done"
StepResult(p, step) == IF IsWorkflow(p) THEN Entry(p, step) ELSE response[p].result
C15_TimeoutIsOrdinaryFailure ==
    \A p \in Procs : \A step \in {"checkout", "build"} :
        (HitTimeout(p, step) /\ StepEnded(p, step)
                             /\ StepResult(p, step).exc # "OSError") =>
            /\ StepResult(p, step).ret = "value"
            /\ StepResult(p, step).success = "false"
            /\ IsWorkflow(p) => /\ pc[p] = "done"
                                /\ run[p].status = "failed"
                                /\ run[p].failed_step = step

\* C16: on every HTTP route, the workflow route included, a request that
\* ends in a validation failure (unknown application, service not allowed)
\* is answered 400 with the validation message, one that ends in any other
\* raised failure is answered 500 with a generic message, and no other
\* request is answered 400 or 500.
IsValidationFailure(r) ==
    /\ r.ret \in {"raise", "caught"}
    /\ r.exc = "ValueError"
    /\ r.error \in {AppNotAllowed, ServiceNotAllowed}
IsOtherFailure(r) == r.ret \in {"raise", "caught"} /\ ~IsValidationFailure(r)
\* the failure an HTTP request ended in, if any: the raised result of the
\* operation, or of the step at which the workflow run failed
HttpOutcome(p) ==
    IF ~IsWorkflow(p) THEN response[p].result
    ELSE IF run[p].status = "failed" THEN Entry(p, run[p].failed_step)
    ELSE NoResult
C16_HttpErrorMapping ==
    \A p \in Procs : (req[p].fe = "http" /\ pc[p] = "done") =>
        /\ IsValidationFailure(HttpOutcome(p)) =>
              response[p].kind = "400" /\ response[p].detail = HttpOutcome(p).error
        /\ IsOtherFailure(HttpOutcome(p)) =>
              response[p].kind = "500" /\ response[p].detail = "generic"
        /\ response[p].kind = "400" => IsValidationFailure(HttpOutcome(p))
        /\ response[p].kind = "500" => IsOtherFailure(HttpOutcome(p))

\* C17: a call of an MCP tool ends as the same operation of tools_api (the
\* implementation behind the HTTP routes) ends on the same filesystem: the
\* same error when tools_api rejects the call, the same verify result, and
\* for deploy the same resolved artifact, the same "artifact not found"
\* failure and the same stable link after a success.
SameAsToolsApi(p) ==
    LET op == req[p].op
        a == req[p].app
        r == response[p].result
        n == get_artifact_file(cfg, artifacts)
    IN  /\ Guard("http", op, a).ret = "raise" => r = Guard("http", op, a)
        /\ (op = "verify" /\ a \in APPLICATIONS) => r = verify_result_api(cfg, artifacts)
        /\ (op = "deploy" /\ a \in APPLICATIONS) =>
              IF n = NoArtifact
              THEN r = Raise("ValueError", "Artifact not found, build first")
              ELSE /\ loc[p].artifact = n
                   /\ (r.success = "true" /\ cfg.symlink) => link = SymlinkTo(n)
C17_FrontEndsAgree ==
    \A p \in Procs : (req[p].fe = "mcp" /\ pc[p] = "done") => SameAsToolsApi(p)

\* C18: within one workflow run the steps are taken in the order checkout,
\* build, verify, deploy, restart, status: the run moves on only to the step
\* that follows the current one, and only in the step that records the
\* current step's result; recorded results are never replaced, and a step
\* that has begun is not begun again.
Position(step) == CHOOSE i \in 1..Len(WorkflowSteps) : WorkflowSteps[i] = step
InOrder(p) ==
    (IsWorkflow(p) /\ req'[p] = req[p]) =>
        /\ cur'[p] # cur[p] =>
              /\ Position(cur'[p]) = Position(cur[p]) + 1
              /\ Keys(run'[p].steps) = Append(Keys(Steps(p)), cur[p])
              /\ pc'[p] = "call"
        /\ cur'[p] = cur[p] => (pc'[p] = "call" => pc[p] = "call" /\ run'[p] = run[p])
        /\ Len(run'[p].steps) >= Len(Steps(p))
        /\ \A i \in 1..Len(Steps(p)) : run'[p].steps[i] = Steps(p)[i]
        /\ ~Has(p, cur[p]) \/ pc[p] = "done"
C18_StepsInOrderOnce == [][\A p \in Procs : InOrder(p)]_vars
\* a run that went through all six steps
C18_Witness ==
    \E p \in Procs : /\ IsWorkflow(p) /\ pc[p] = "done" /\ run[p].status = "completed"
                     /\ Keys(Steps(p)) = WorkflowSteps
                     /\ Entry(p, "status").ret = "value"

\* C20: whenever a step operation (checkout, build, verify, deploy, restart,
\* status, logs) returns a value for a registry application, called on its
\* own or as a step of a workflow run, the returned object has a "success"
\* field that is true or false.
ReturnedValues(p) ==
    IF IsWorkflow(p) THEN { Steps(p)[i].result : i \in 1..Len(Steps(p)) }
    ELSE IF pc[p] = "done" /\ req[p].op \in StepOps THEN {response[p].result}
    ELSE {}
C20_ResultHasSuccess ==
    \A p \in Procs : req[p].app \in APPLICATIONS =>
        \A r \in ReturnedValues(p) : r.ret = "value" => r.success \in {"true", "false"}

\* C19: no invocation ever waits for another.  While one invocation is
\* inside deploy, a second deploy that has been called can begin, and every
\* deploy that has begun can take its next filesystem step, whatever the
\* other invocation is doing.
C19_NoMutualExclusion ==
    \A p \in Procs :
        /\ (pc[p] = "call" /\ cur[p] = "deploy" /\ ~Rejected(p)) => ENABLED deploy_begin(p)
        /\ (pc[p] \in DeployStages /\ cur[p] = "deploy") => ENABLED deploy_artifact(p)
\* the race: both deploys saw the target existing, one has moved it to .bak,
\* and the other is about to move a target that is no longer there
C19_Witness ==
    \E p \in Procs : \E q \in Procs \ {p} :
        /\ pc[p] \in {"copy", "link", "unlink", "symlink", "return"} /\ loc[p].moved
        /\ pc[q] = "move"
        /\ loc[q].artifact = loc[p].artifact
        /\ loc[q].artifact \notin DOMAIN target

\* C21: a deploy of tools_api that found no file at the target path when it
\* started and that returns a value, returns success = true with backup =
\* null and has moved nothing; and whenever a deploy returns a backup that
\* is not null, this call has moved a previous target to .bak.
C21_BackupOnlyWhenMoved ==
    \A p \in Procs : (DeployEnded(p) /\ req[p].fe = "http" /\ LastResult(p).ret = "value") =>
        /\ LastResult(p).success = "true"
        /\ ~loc[p].had_target => (LastResult(p).backup = "null" /\ ~loc[p].moved)
        /\ LastResult(p).backup # "null" => loc[p].moved

\* C22: an exception raised by a step of a workflow run is recorded in the
\* steps map as that step's entry, carrying the error; for the steps
\* checkout to restart the run then ends failed at that step; and a
\* workflow request is always answered 200 with the run, never with an
\* HTTP error.
C22_StepExceptionsRecorded ==
    \A p \in Procs : IsWorkflow(p) =>
        /\ \A i \in 1..Len(Steps(p)) :
              Steps(p)[i].result.ret = "caught" =>
                 /\ Steps(p)[i].result.exc # "none"
                 /\ Steps(p)[i].name # "status" =>
                       /\ i = Len(Steps(p))
                       /\ run[p].status = "failed"
                       /\ run[p].failed_step = Steps(p)[i].name
        /\ \A i \in 1..Len(Steps(p)) : Steps(p)[i].result.ret # "raise"
        /\ pc[p] = "done" => response[p].kind = "200"
        /\ pc[p] # "done" => response[p].kind = "none"
\* a run whose build step could not launch its process
C22_Witness ==
    \E p \in Procs : /\ IsWorkflow(p) /\ pc[p] = "done" /\ response[p].kind = "200"
                     /\ Has(p, "build") /\ Entry(p, "build").ret = "caught"
                     /\ Entry(p, "build").exc = "OSError"

\* C30: the envelope of a workflow answer agrees with the run: success is
\* true exactly when status = completed, false exactly when status = failed
\* with failed_step naming the last key of the steps map, and the answer is
\* HTTP 200 in both cases.
C30_EnvelopeMatchesRun ==
    \A p \in Procs : (IsWorkflow(p) /\ pc[p] = "done") =>
        /\ response[p].kind = "200"
        /\ response[p].success \in {"true", "false"}
        /\ response[p].success = "true" <=> run[p].status = "completed"
        /\ response[p].success = "false" <=>
              /\ run[p].status = "failed"
              /\ Len(Steps(p)) > 0
              /\ run[p].failed_step = Steps(p)[Len(Steps(p))].name
\* a run that failed at verify, answered success = false
C30_Witness ==
    \E p \in Procs : /\ IsWorkflow(p) /\ pc[p] = "done" /\ response[p].success = "false"
                     /\ run[p].failed_step = "verify"
                     /\ Entry(p, "verify").ret = "value"

\* C23: every workflow run ends: a run in progress leads to a finished run
\* whose status is completed or failed, and a run never records more than
\* the six steps.
C23_WorkflowTerminates ==
    /\ [](\A p \in Procs : Len(run[p].steps) <= Len(WorkflowSteps))
    /\ \A p \in SeqProcs :
          (IsWorkflow(p) /\ pc[p] # "done")
              ~> (pc[p] = "done" /\ run[p].status \in {"completed", "failed"})
\* a run that ended at its fifth step
C23_Witness ==
    \E p \in Procs : /\ IsWorkflow(p) /\ pc[p] = "done" /\ run[p].failed_step = "restart"
                     /\ Len(Steps(p)) = 5

\* C24: the command executor never raises: no operation ends with the
\* exception of a command that could not be launched (program missing,
\* working directory missing); such a command gives a result value, so that
\* restart then returns success = false.
EndResults(p) ==
    IF IsWorkflow(p) THEN { Steps(p)[i].result : i \in 1..Len(Steps(p)) }
    ELSE IF pc[p] = "done" THEN {response[p].result}
    ELSE {}
C24_ExecutorNeverRaises ==
    \A p \in Procs : \A r \in EndResults(p) :
        ~(r.ret \in {"raise", "caught"} /\ r.exc = "OSError" /\ r.error = "launch failed")

\* C25: journalctl is never run with a line count outside 1..10000, through
\* either front-end; a request that gives no count runs it with 100.
C25_LinesInRange ==
    \A p \in Procs : "journalctl" \in effects[p] => req[p].lines \in MinLines..MaxLines

\* C27: build for a registry application whose build kind is not in the
\* build command table ends with the error "Unsupported build type" and
\* starts no process; for a kind in the table it runs the build command and
\* returns success = (exit code = 0).
BuildEnded(p) == req[p].op = "build" /\ pc[p] = "done" /\ req[p].app \in APPLICATIONS
C27_UnsupportedBuildType ==
    \A p \in Procs : BuildEnded(p) =>
        IF cfg.build_type \notin DOMAIN BUILD_COMMANDS
        THEN /\ response[p].result.ret = "raise"
             /\ response[p].result.error = "Unsupported build type"
             /\ "mvn" \notin effects[p]
        ELSE response[p].result.ret = "value" =>
                /\ "mvn" \in effects[p]
                /\ response[p].result.success = BoolStr(response[p].result.code = "0")

\* C26: checkout runs git clone and nothing else when the checkout
\* directory was absent, and git fetch, git checkout, git pull otherwise;
\* when it returns success = true, every command it ran exited with code 0.
CheckoutEnded(p) == StepEnded(p, "checkout") /\ req[p].app \in APPLICATIONS
GitCommands(p) == effects[p] \cap {"git_clone", "git_fetch", "git_checkout", "git_pull"}
C26_CheckoutAllCommandsSucceed ==
    \A p \in Procs : (CheckoutEnded(p) /\ StepResult(p, "checkout").ret = "value") =>
        /\ GitCommands(p) \in {{"git_clone"}, {"git_fetch", "git_checkout", "git_pull"}}
        /\ StepResult(p, "checkout").success = "true" => "git_failed" \notin effects[p]

\* C28: the stable link is repointed atomically.  From the start of a
\* deploy that found the stable link in place to its end, under every
\* interleaving with another deploy, the link path holds a symbolic link,
\* and the deploy does not fail in its repoint step because the path is
\* occupied or already removed.
RepointErrors == {"unlink: no such file", "symlink: file exists"}
C28_LinkRepointedAtomically ==
    \A p \in Procs :
        (cur[p] = "deploy" /\ pc[p] \in DeployStages \cup {"done"}
                           /\ loc[p].old_link.kind = "symlink") =>
            /\ link.kind = "symlink"
            /\ pc[p] = "done" => response[p].result.error \notin RepointErrors

\* C29: after a deploy that returned success = true, the deploy directory
\* exists and the target path holds a file with the content of the artifact
\* that the call resolved.
C29_TargetHoldsArtifact ==
    \A p \in Procs : (DeploySucceeded(p) /\ req[p].app \in APPLICATIONS) =>
        /\ deploy_dir
        /\ loc[p].artifact \in DOMAIN target
        /\ loc[p].artifact \in DOMAIN artifacts
        /\ target[loc[p].artifact] = artifacts[loc[p].artifact].content
\* a successful deploy that replaced an earlier target by a different,
\* non-empty artifact
C29_Witness ==
    \E p \in Procs : /\ DeploySucceeded(p) /\ loc[p].moved
                     /\ loc[p].artifact \in DOMAIN target \cap DOMAIN bak
                     /\ target[loc[p].artifact] > 0
                     /\ bak[loc[p].artifact] # target[loc[p].artifact]

\* C31: a workflow run that fails at checkout, build or verify leaves the
\* deployed state alone.  Every step taken while the run is still at one of
\* these three steps, or after one of them was recorded as failed, leaves
\* the target, the .bak file and the stable link unchanged and issues no
\* restart; a run that ended as failed at one of them has performed no
\* filesystem action of deploy and no restart; and a run issues the restart
\* only when its deploy step is recorded with success = true.
PreDeploySteps == {"checkout", "build", "verify"}
DeployEffects == {"mkdir_deploy", "move", "copy", "unlink", "symlink"}
RestartEffect == ServiceCommand("restart")
PreDeployFailed(p) ==
    IsWorkflow(p) /\ \E k \in PreDeploySteps : Has(p, k) /\ Failing(Entry(p, k))
BeforeDeploy(p) ==
    IsWorkflow(p) /\ ((pc[p] = "call" /\ cur[p] \in PreDeploySteps) \/ PreDeployFailed(p))
C31_Frame(p) ==
    /\ BeforeDeploy(p) =>
          /\ UNCHANGED <<deploy_dir, target, bak, link>>
          /\ effects'[p] \cap (DeployEffects \cup {RestartEffect}) = {}
    /\ (IsWorkflow(p) /\ RestartEffect \in effects'[p] \ effects[p]) =>
          (Has(p, "deploy") /\ ~Failing(Entry(p, "deploy")))
C31_FailedRunLeavesDeployment == [][\A p \in Procs : C31_Frame(p)]_vars
\* a run that stopped at a build that had replaced the build output, on a
\* server where an earlier deploy had put a target in place
C31_Witness ==
    \E p \in Procs : /\ IsWorkflow(p) /\ pc[p] = "done"
                     /\ run[p].status = "failed" /\ run[p].failed_step = "build"
                     /\ "mvn" \in effects[p]
                     /\ target # EmptyDir

\* C32: in a workflow run whose deploy step has copied the artifact, the
\* file copied is the path the run's verify step reported and it was not
\* empty when copied, also when a checkout or a build for the application
\* runs at the same time.
CopyDone(p) ==
    /\ IsWorkflow(p) /\ Has(p, "verify")
    /\ \/ cur[p] = "deploy" /\ pc[p] \in {"link", "unlink", "symlink", "return"}
       \/ Has(p, "deploy") /\ ~Failing(Entry(p, "deploy"))
C32_DeployCopiesVerifiedArtifact ==
    \A p \in Procs : CopyDone(p) =>
        /\ loc[p].artifact = Entry(p, "verify").artifact
        /\ loc[p].copied > 0

====
